---- MODULE Spec2Model ----
(***************************************************************************)
(* A state-machine model of ghdl.py: the config check, the sequential     *)
(* path (concurrency = 0) and the pooled path (two ThreadPoolExecutors     *)
(* used one after the other), with the download directory as shared       *)
(* state.                                                                  *)
(*                                                                         *)
(* Conventions                                                             *)
(*  - a compiled filter pattern is modelled by the set of file names it   *)
(*    fully matches (re.fullmatch restricted to Names);                    *)
(*  - a directory entry is [kind, ino, size]; ino is 0 for a file that     *)
(*    was there before the run and the index of the download whose open()  *)
(*    created it otherwise, so that a writer whose file was unlinked       *)
(*    under it keeps writing to an inode no name refers to;                *)
(*  - the remote side and the OS are the environment: every response and   *)
(*    every OSError is drawn with \E at the call that meets it;            *)
(*  - KeyboardInterrupt is raised in the main thread only and once per run *)
(*    at most.  In the pooled path it is raised while the main thread is   *)
(*    in the try block of the fetch phase or of the download phase.  In    *)
(*    the sequential path it is raised in a network call, between the      *)
(*    return of open and `file_opened = True`, or in the finally block     *)
(*    ahead of the unlink.                                                 *)
(***************************************************************************)
EXTENDS Integers, Sequences, FiniteSets, TLC

\* ---------------------------------------------------------------- bounds
MaxLen == 1
MaxConcurrency == 1

\* ------------------------------------------------------ program constants
_CHUNK_SIZE == 4096
_DEFAULT_CONCURRENCY == 5

Names == {"a", "b"}

\* the releases of one run name no more assets than there are names
MaxAssets == Cardinality(Names)

Min(x, y) == IF x <= y THEN x ELSE y
Max(x, y) == IF x >= y THEN x ELSE y
Range(s) == {s[k] : k \in 1..Len(s)}

\* -------------------------------------------------------------- file system
Absent == [kind |-> "absent", ino |-> 0, size |-> 0]
OldFile == [kind |-> "file", ino |-> 0, size |-> 1]
Directory == [kind |-> "dir", ino |-> 0, size |-> 0]
NewFile(i) == [kind |-> "file", ino |-> i, size |-> 0]

\* pathlib.Path.exists / is_file on the entry of one name
Exists(e) == e.kind # "absent"
IsFile(e) == e.kind = "file"

\* unlink may raise OSError (EPERM, EACCES) on a file that was in the
\* directory before the run; a file the run created it can also remove
UnlinkMayFail(e) == IsFile(e) /\ e.ino = 0

\* ------------------------------------------------------------ _check_config
\* The raw config is given by the type of each key's value; "absent" is a
\* missing key, which config.get replaces by the default.
BoolTags == {"absent", "true", "false", "other"}
StrTags == {"absent", "str", "other"}

Failed == [ok |-> FALSE, overwrite |-> FALSE, clear_matches |-> FALSE, concurrent_num |-> 0]

\* a check that forgets the sign of concurrency
_check_config_AnyInt(c) ==
    IF c.shape # "dict" THEN Failed
    ELSE IF c.overwrite = "other" THEN Failed
    ELSE IF c.clear_matches = "other" THEN Failed
    ELSE IF c.dir = "other" THEN Failed
    ELSE IF c.token = "other" THEN Failed
    ELSE IF c.concurrency.type \notin {"absent", "int"} THEN Failed
    ELSE IF c.repos_type # "list" THEN Failed
    ELSE [ok |-> TRUE,
          overwrite |-> (c.overwrite \in {"absent", "true"}),
          clear_matches |-> (c.clear_matches = "true"),
          concurrent_num |-> IF c.concurrency.type = "absent"
                             THEN _DEFAULT_CONCURRENCY ELSE c.concurrency.val]

_check_config(c) ==
    IF c.shape # "dict" THEN Failed
    ELSE IF c.overwrite = "other" THEN Failed
    ELSE IF c.clear_matches = "other" THEN Failed
    ELSE IF c.dir = "other" THEN Failed
    ELSE IF c.token = "other" THEN Failed
    ELSE IF c.concurrency.type \notin {"absent", "int"} THEN Failed
    ELSE IF c.concurrency.type = "int" /\ c.concurrency.val < 0 THEN Failed
    ELSE IF c.repos_type # "list" THEN Failed
    ELSE [ok |-> TRUE,
          overwrite |-> (c.overwrite \in {"absent", "true"}),
          clear_matches |-> (c.clear_matches = "true"),
          concurrent_num |-> IF c.concurrency.type = "absent"
                             THEN _DEFAULT_CONCURRENCY ELSE c.concurrency.val]

\* ------------------------------------------------------- _check_repo_config
\* A repo entry is [shape, owner, repo, token, filters_type, filters]; the
\* filters are the patterns they compile to, or "invalid" for a string that
\* re.compile rejects, or "nonstr" for an item that is no string.
\* a check that accepts an empty owner
_check_repo_config_AnyOwner(e) ==
    /\ e.shape = "dict"
    /\ e.owner \in {"str", "empty"}
    /\ e.repo = "str"
    /\ e.token \in {"absent", "str"}
    /\ e.filters_type \in {"absent", "list"}
    /\ \A k \in 1..Len(e.filters) : e.filters[k].kind = "pattern"

_check_repo_config(e) ==
    /\ e.shape = "dict"
    /\ e.owner = "str"
    /\ e.repo = "str"
    /\ e.token \in {"absent", "str"}
    /\ e.filters_type \in {"absent", "list"}
    /\ \A k \in 1..Len(e.filters) : e.filters[k].kind = "pattern"

\* the compiled patterns of a valid entry, in order
Patterns(e) == [k \in 1..Len(e.filters) |-> e.filters[k].matches]

\* some pattern of the list fully matches the name (the for/break loops)
\* a sweep filter that, like the asset filter, takes an empty list for "all"
AnyFullMatch_EmptyIsAll(patterns, name) ==
    Len(patterns) = 0 \/ \E k \in 1..Len(patterns) : name \in patterns[k]

AnyFullMatch(patterns, name) == \E k \in 1..Len(patterns) : name \in patterns[k]

\* ----------------------------------------------------------- _clear_matches
\* listErr: iterdir raised OSError; errs: the names whose unlink raised OSError.
\* a sweep that deletes every regular file, matched or not
_clear_matches_All(dir, patterns, listErr, errs) ==
    IF listErr THEN [fs |-> dir, ok |-> FALSE]
    ELSE [fs |-> [n \in Names |->
                    IF IsFile(dir[n]) /\ n \notin errs THEN Absent ELSE dir[n]],
          ok |-> \A n \in Names : Exists(dir[n]) => (IsFile(dir[n]) /\ n \notin errs)]

_clear_matches(dir, patterns, listErr, errs) ==
    IF listErr THEN [fs |-> dir, ok |-> FALSE]
    ELSE [fs |-> [n \in Names |->
                    IF Exists(dir[n]) /\ AnyFullMatch(patterns, n)
                       /\ IsFile(dir[n]) /\ n \notin errs
                    THEN Absent ELSE dir[n]],
          ok |-> \A n \in Names :
                    (Exists(dir[n]) /\ AnyFullMatch(patterns, n))
                        => (IsFile(dir[n]) /\ n \notin errs)]

\* the unlink calls of one sweep that may raise: the matched regular files
ClearTargets(dir, patterns) ==
    {n \in Names : Exists(dir[n]) /\ AnyFullMatch(patterns, n) /\ UnlinkMayFail(dir[n])}

\* ----------------------------------------------------------- _parse_release
\* A download task is [url, filename]; the url of asset k of repo r's release
\* is <<r, k>>.  errs: the assets whose exists() probe raised OSError.
\* a filter that lets every asset through
Matched_All(patterns, filename) == TRUE

Matched(patterns, filename) == Len(patterns) = 0 \/ AnyFullMatch(patterns, filename)

RECURSIVE ParseAssets(_, _, _, _, _, _, _, _)
ParseAssets(assets, k, r, patterns, overwrite, dir, errs, acc) ==
    IF k > Len(assets) THEN acc
    ELSE LET filename == assets[k]
             task == [url |-> <<r, k>>, filename |-> filename]
             step ==
                IF ~Matched(patterns, filename) THEN acc
                ELSE IF k \in errs THEN [acc EXCEPT !.ok = FALSE]
                ELSE IF Exists(dir[filename])
                     THEN IF ~overwrite THEN acc
                          ELSE IF ~IsFile(dir[filename]) THEN [acc EXCEPT !.ok = FALSE]
                          ELSE [acc EXCEPT !.list = Append(@, task)]
                     ELSE [acc EXCEPT !.list = Append(@, task)]
         IN ParseAssets(assets, k + 1, r, patterns, overwrite, dir, errs, step)

\* a match that overwrites whatever the config says
_parse_release_Overwrites(assets, r, patterns, overwrite, dir, download_list, errs) ==
    IF Len(assets) = 0 THEN [list |-> download_list, ok |-> TRUE]
    ELSE ParseAssets(assets, 1, r, patterns, TRUE, dir, errs,
                     [list |-> download_list, ok |-> TRUE])

_parse_release(assets, r, patterns, overwrite, dir, download_list, errs) ==
    IF Len(assets) = 0 THEN [list |-> download_list, ok |-> TRUE]
    ELSE ParseAssets(assets, 1, r, patterns, overwrite, dir, errs,
                     [list |-> download_list, ok |-> TRUE])

\* the probes of one call that may raise: the matched assets
ProbeTargets(assets, patterns) == {k \in 1..Len(assets) : Matched(patterns, assets[k])}

\* ------------------------------------------------------------------- state
VARIABLES
    cfg,            \* the config object handed to ghdl (never changes)
    fs0,            \* the download directory before the run (never changes)
    fs,             \* the download directory: name -> entry
    mkdir_called,   \* pathlib.Path(download_dir).mkdir was called
    pc,             \* where the main thread is in ghdl
    idx,            \* the loop index of the main thread's current loop
    success,        \* ghdl's local `success`
    download_list,  \* ghdl's local `download_list`
    interrupt,      \* "none" (no Event: None), "unset", "set"
    executor,       \* the two pools: "none", "open", "shutdown"
    release_task,   \* per repo: the fetch future and what the repo's units returned
    asset_task,     \* per queued download: the _download_asset call
    exc,            \* the exception the main thread is unwinding with
    sigint,         \* a KeyboardInterrupt was raised in the main thread
    result          \* what ghdl returned or raised; "running" until then

vars == <<cfg, fs0, fs, mkdir_called, pc, idx, success, download_list, interrupt,
          executor, release_task, asset_task, exc, sigint, result>>

\* ------------------------------------------------------------------ inputs
Pattern(m) == [kind |-> "pattern", matches |-> m]
Entry(shape, owner, filters) ==
    [shape |-> shape, owner |-> owner, repo |-> "str", token |-> "absent",
     filters_type |-> "list", filters |-> filters]

RepoEntries ==
    { Entry("dict", "str", <<>>),
      Entry("dict", "str", <<Pattern({"a"})>>),
      Entry("dict", "empty", <<>>) }

RepoLists ==
    {<<e>> : e \in RepoEntries}
        \cup {p \in RepoEntries \X RepoEntries : p[1] # p[2]}

IntVal(n) == [type |-> "int", val |-> n]
NoInt(t) == [type |-> t, val |-> 0]

Config(shape, ow, cm, dir, token, conc, rt, repos) ==
    [shape |-> shape, overwrite |-> ow, clear_matches |-> cm, dir |-> dir,
     token |-> token, concurrency |-> conc, repos_type |-> rt, repos |-> repos]

\* the configs that are run: every overwrite / clear_matches, and concurrency
\* 0 (sequential), 1..MaxConcurrency and the default
RunConfigs ==
    { Config("dict", ow, cm, "absent", "absent", conc, "list", repos) :
        ow \in {"absent", "false"}, cm \in {"absent", "true"},
        conc \in {IntVal(n) : n \in 0..MaxConcurrency} \cup {NoInt("absent")},
        repos \in RepoLists }

\* one repo whose two filters match every name, with clear_matches, run
\* sequentially and pooled
ClearSweepConfigs ==
    { Config("dict", "absent", "true", "absent", "absent", IntVal(n), "list",
             <<Entry("dict", "str", <<Pattern({"a"}), Pattern({"b"})>>)>>) : n \in 0..1 }

\* configs with a key of the wrong type, over a repos list that would be run
SweepRepos == <<Entry("dict", "str", <<>>)>>
ConcurrencyValues == {IntVal(-1), IntVal(0), IntVal(1), NoInt("absent"), NoInt("bool"), NoInt("str")}
SweepConfigs ==
    { Config(shape, ow, cm, dir, token, conc, rt, IF rt = "list" THEN SweepRepos ELSE <<>>) :
        shape \in {"dict", "other"}, ow \in BoolTags, cm \in BoolTags,
        dir \in StrTags, token \in StrTags, conc \in ConcurrencyValues,
        rt \in {"absent", "list", "other"} }

\* the sweep keeps the configs with something wrong, and the empty repos list
BadConfigs ==
    { c \in SweepConfigs :
        \/ c.shape # "dict" \/ c.overwrite = "other" \/ c.clear_matches = "other"
        \/ c.dir = "other" \/ c.token = "other" \/ c.repos_type # "list"
        \/ c.concurrency.type \in {"bool", "str"} \/ c.concurrency.val < 0 }

\* repo entries with one fault each, alone in a config that clears matches,
\* run sequentially and pooled
BadRepoEntries ==
    LET ok == Entry("dict", "str", <<>>) IN
    { [ok EXCEPT !.shape = "other"] }
        \cup { [ok EXCEPT !.owner = v] : v \in {"absent", "empty", "other"} }
        \cup { [ok EXCEPT !.repo = v] : v \in {"absent", "empty", "other"} }
        \cup { [ok EXCEPT !.token = "other"], [ok EXCEPT !.filters_type = "other"] }
        \cup { [ok EXCEPT !.filters = <<Pattern({"a"}), [kind |-> k, matches |-> {}]>>] :
                    k \in {"invalid", "nonstr"} }
BadRepoConfigs ==
    { Config("dict", "absent", "true", "absent", "absent", IntVal(n), "list", <<e>>) :
        n \in 0..1, e \in BadRepoEntries }

EmptyConfigs ==
    { Config("dict", ow, cm, dir, "str", conc, "list", <<>>) :
        ow \in {"absent", "true", "false"}, cm \in {"absent", "true", "false"},
        dir \in {"absent", "str"},
        conc \in {IntVal(n) : n \in 0..MaxConcurrency} \cup {NoInt("absent")} }

Directories ==
    {d \in [Names -> {Absent, OldFile, Directory}] :
        d["b"] = Absent \/ (d["a"] = OldFile /\ d["b"] = OldFile)}
SweepDirectory == [n \in Names |-> IF n = "a" THEN OldFile ELSE Directory]

\* ----------------------------------------------------------------- fetches
NoRelease == [kind |-> "none", assets |-> <<>>]
AssetLists == {<<>>, <<"a">>, <<"a", "b">>}
\* what _get_latest_release meets: a caught error, a JSON body without
\* "name", one with "name" and without "assets", or a release
FetchOutcomes ==
    { [kind |-> k, assets |-> <<>>] : k \in {"error", "noname", "noassets"} }
        \cup { [kind |-> "ok", assets |-> a] : a \in AssetLists }

\* the releases fetched so far name at most MaxAssets assets
AssetsSoFar == LET RECURSIVE Sum(_)
                   Sum(r) == IF r = 0 THEN 0 ELSE Len(release_task[r].release.assets) + Sum(r - 1)
               IN Sum(Len(release_task))
Fetchable == {o \in FetchOutcomes : AssetsSoFar + Len(o.assets) <= MaxAssets}

\* lines 36-78: what _get_latest_release gives its caller for the outcome o:
\* None, the parsed body, or the exception it lets through; ev is the
\* `interrupt` argument.  A body without "name" raises KeyError in the
\* finally block's log line, which the outer except swallows iff ev is truthy.
None == [kind |-> "None", assets |-> <<>>]
_get_latest_release(o, ev) ==
    CASE o.kind = "error" -> None
      [] o.kind = "noname" -> IF ev # "none" THEN None ELSE [kind |-> "KeyError", assets |-> <<>>]
      [] OTHER -> o

NoFetch == [st |-> "none", release |-> NoRelease, collected |-> FALSE, clear |-> "none", match |-> "none"]

\* --------------------------------------------------------------- downloads
NewTask(st) ==
    [st |-> st, hdr |-> "none", content_length |-> 0, downloaded_size |-> 0,
     file_opened |-> FALSE, success |-> FALSE, exc |-> "none", handle |-> -1,
     ret |-> "none", unlink_failed |-> FALSE, collected |-> FALSE]

Repos == cfg.repos
Checked == _check_config(cfg)
Bool(b) == IF b THEN "True" ELSE "False"

Init ==
    /\ \/ cfg \in RunConfigs \cup ClearSweepConfigs /\ fs0 \in Directories
       \/ cfg \in BadConfigs \cup EmptyConfigs \cup BadRepoConfigs /\ fs0 = SweepDirectory
    /\ fs = fs0
    /\ mkdir_called = FALSE
    /\ pc = "check"
    /\ idx = 0
    /\ success = TRUE
    /\ download_list = <<>>
    /\ interrupt = "none"
    /\ executor = [fetch |-> "none", download |-> "none"]
    /\ release_task = [r \in 1..Len(cfg.repos) |-> NoFetch]
    /\ asset_task = <<>>
    /\ exc = "none"
    /\ sigint = FALSE
    /\ result = "running"

\* ------------------------------------------------------- ghdl: before the paths
Return(v) == pc' = "done" /\ result' = v

\* the config check without the return on an empty repos list
Validate_NoEmptyReturn ==
    /\ pc = "check"
    /\ IF ~Checked.ok THEN Return("False")
       ELSE pc' = "mkdir" /\ result' = result
    /\ UNCHANGED <<cfg, fs0, fs, mkdir_called, idx, success, download_list, interrupt,
                   executor, release_task, asset_task, exc, sigint>>

\* lines 352-365: the config check and the empty repos list
Validate ==
    /\ pc = "check"
    /\ IF ~Checked.ok THEN Return("False")
       ELSE IF Len(Repos) = 0 THEN Return("True")
       ELSE pc' = "mkdir" /\ result' = result
    /\ UNCHANGED <<cfg, fs0, fs, mkdir_called, idx, success, download_list, interrupt,
                   executor, release_task, asset_task, exc, sigint>>

\* lines 367-387: mkdir, then the Event and the fetch pool when concurrent_num
\* is truthy
Mkdir ==
    /\ pc = "mkdir"
    /\ mkdir_called' = TRUE
    /\ \E oserror \in BOOLEAN :
        IF oserror
        THEN /\ Return("False")
             /\ UNCHANGED <<success, interrupt, executor, idx>>
        ELSE /\ success' = TRUE
             /\ idx' = 1
             /\ result' = result
             /\ IF Checked.concurrent_num # 0
                THEN /\ interrupt' = "unset"
                     /\ executor' = [executor EXCEPT !.fetch = "open"]
                     /\ pc' = "submit"
                ELSE /\ UNCHANGED <<interrupt, executor>>
                     /\ pc' = "seq_repo"
    /\ UNCHANGED <<cfg, fs0, fs, download_list, release_task, asset_task, exc, sigint>>

\* ---------------------------------------------------- ghdl: sequential path
\* what one repo's clear-matches call may do (lines 397-398, 450-451)
ClearResults(dir, patterns) ==
    IF ~Checked.clear_matches THEN {[fs |-> dir, ok |-> TRUE, ran |-> FALSE]}
    ELSE { [fs |-> c.fs, ok |-> c.ok, ran |-> TRUE] :
            c \in { _clear_matches(dir, patterns, FALSE, errs) : errs \in SUBSET ClearTargets(dir, patterns) }
                    \cup { _clear_matches(dir, patterns, TRUE, {}) } }

Mark(ran, ok) == IF ~ran THEN "none" ELSE IF ok THEN "ok" ELSE "fail"

\* after the last repo of the sequential loop: the download loop, or the return
SeqAfterRepos(list, ok) ==
    IF idx < Len(Repos) THEN pc' = "seq_repo" /\ idx' = idx + 1 /\ result' = result
    ELSE IF Len(list) > 0 THEN pc' = "seq_download" /\ idx' = 1 /\ result' = result
    ELSE Return(Bool(ok)) /\ idx' = idx

\* lines 442-467: one iteration of the sequential repo loop
SeqRepo ==
    /\ pc = "seq_repo"
    /\ LET e == Repos[idx] IN
       IF ~_check_repo_config(e)
       THEN /\ success' = FALSE
            /\ SeqAfterRepos(download_list, FALSE)
            /\ UNCHANGED <<fs, download_list, release_task, sigint>>
       ELSE \E c \in ClearResults(fs, Patterns(e)) :
            /\ fs' = c.fs
            /\ \/ \E o \in Fetchable :
                  LET ret == _get_latest_release(o, interrupt)
                      rec == [st |-> "done", release |-> ret, collected |-> TRUE,
                              clear |-> Mark(c.ran, c.ok), match |-> "none"]
                  IN
                  CASE ret.kind = "None" ->
                        /\ success' = FALSE
                        /\ release_task' = [release_task EXCEPT ![idx] = rec]
                        /\ SeqAfterRepos(download_list, FALSE)
                        /\ UNCHANGED <<download_list, sigint>>
                    [] ret.kind \in {"KeyError", "noassets"} ->
                        /\ release_task' = [release_task EXCEPT ![idx] = rec]
                        /\ success' = (c.ok /\ success)
                        /\ Return("KeyError")
                        /\ UNCHANGED <<download_list, idx, sigint>>
                    [] ret.kind = "ok" ->
                        \E errs \in SUBSET ProbeTargets(o.assets, Patterns(e)) :
                        LET p == _parse_release(o.assets, idx, Patterns(e), Checked.overwrite,
                                                c.fs, download_list, errs)
                        IN
                        /\ download_list' = p.list
                        /\ success' = (p.ok /\ (c.ok /\ success))
                        /\ release_task' = [release_task EXCEPT ![idx] = [rec EXCEPT !.match = Mark(TRUE, p.ok)]]
                        /\ SeqAfterRepos(p.list, p.ok /\ (c.ok /\ success))
                        /\ sigint' = sigint
               \/ /\ ~sigint
                  /\ sigint' = TRUE
                  /\ release_task' = [release_task EXCEPT ![idx] =
                        [NoFetch EXCEPT !.st = "done", !.clear = Mark(c.ran, c.ok)]]
                  /\ success' = (c.ok /\ success)
                  /\ Return("KeyboardInterrupt")
                  /\ UNCHANGED <<download_list, idx>>
    /\ UNCHANGED <<cfg, fs0, mkdir_called, interrupt, executor, asset_task, exc>>

\* lines 442-467 from repo r on, over the directory dir and the list so far:
\* the sequential repo loop fed with the releases the run fetched, no OSError
RECURSIVE SeqLoop(_, _, _)
SeqLoop(r, dir, list) ==
    IF r > Len(Repos) THEN list
    ELSE IF ~_check_repo_config(Repos[r]) THEN SeqLoop(r + 1, dir, list)
    ELSE LET patterns == Patterns(Repos[r])
             cleared == IF Checked.clear_matches
                        THEN _clear_matches(dir, patterns, FALSE, {}).fs ELSE dir
             o == release_task[r].release
         IN IF o.kind # "ok" THEN SeqLoop(r + 1, cleared, list)
            ELSE SeqLoop(r + 1, cleared,
                         _parse_release(o.assets, r, patterns, Checked.overwrite,
                                        cleared, list, {}).list)

\* lines 389-398 and 442-451: the directory after the clear-matches calls of
\* the repos 1..n, no OSError
RECURSIVE ClearedThrough(_, _)
ClearedThrough(n, dir) ==
    IF n = 0 THEN dir
    ELSE LET before == ClearedThrough(n - 1, dir) IN
         IF Checked.clear_matches /\ _check_repo_config(Repos[n])
         THEN _clear_matches(before, Patterns(Repos[n]), FALSE, {}).fs
         ELSE before

\* the directory that the match of repo r's release meets in a run that
\* starts from dir: the pooled path has cleared for every repo by then (lines
\* 389-403 precede lines 405-421), the sequential path for the repos 1..r
MatchDirectory(r, dir) ==
    IF Checked.concurrent_num # 0 THEN ClearedThrough(Len(Repos), dir)
    ELSE ClearedThrough(r, dir)

\* lines 405-421 and 457-467: what a run that starts from dir queues for the
\* release `assets` of repo r, no OSError
QueuedFrom(dir, r, assets) ==
    Range(_parse_release(assets, r, Patterns(Repos[r]), Checked.overwrite,
                         MatchDirectory(r, dir), <<>>, {}).list)

\* --------------------------------------------------------- _download_asset
\* saved_path.open("wb") by download i: an existing file is truncated, a
\* missing one is created
OpenWrite(dir, f, i) ==
    IF IsFile(dir[f]) THEN [dir EXCEPT ![f].size = 0] ELSE [dir EXCEPT ![f] = NewFile(i)]

\* file.write through the handle h when the file has `size` bytes behind it
WriteAt(dir, f, h, size) ==
    IF IsFile(dir[f]) /\ dir[f].ino = h THEN [dir EXCEPT ![f].size = Max(@, size)] ELSE dir

\* a length check that lets a short read pass
SizeCheck_AcceptsShort(t) == t.downloaded_size <= t.content_length

\* line 109: the length check
SizeCheck(t) == t.downloaded_size = t.content_length

\* line 128: the finally block deletes the file
NeedUnlink(t) == t.file_opened /\ ~t.success

\* lines 123-126 and 137-143: what the call gives its caller; ev is the
\* `interrupt` argument and e the exception leaving the finally block
ReturnValue(t, e, ev) ==
    IF e \in {"none", "caught"} THEN Bool(t.success)
    ELSE IF ev # "none" THEN "False"
    ELSE e

\* the call after its return: its locals are gone; what stays is what it
\* returned or raised and, for the record, the exception its try block ended
\* with, the header it met, the lengths of a download it accepted, the file
\* it opened and whether its unlink raised; f is the exception raised inside
\* the finally block (or "none")
Returned(t, e, f, ev) ==
    [NewTask("done") EXCEPT
        !.ret = ReturnValue(t, IF f # "none" THEN f ELSE e, ev),
        !.exc = e, !.hdr = t.hdr,
        !.file_opened = t.file_opened, !.handle = t.handle, !.success = t.success,
        !.content_length = IF t.success THEN t.content_length ELSE 0,
        !.downloaded_size = IF t.success THEN t.downloaded_size ELSE 0,
        !.unlink_failed = (f = "OSError")]

Filename(i) == download_list[i].filename

\* a finally block that also sets the Event when the download failed
Finally_SetsEvent(i, t, e, sig) ==
    \E oserror \in (IF NeedUnlink(t) /\ UnlinkMayFail(fs[Filename(i)]) THEN BOOLEAN ELSE {FALSE}) :
        /\ fs' = IF NeedUnlink(t) /\ ~oserror THEN [fs EXCEPT ![Filename(i)] = Absent] ELSE fs
        /\ asset_task' = [asset_task EXCEPT ![i] =
                Returned(t, e, IF oserror THEN "OSError" ELSE "none", interrupt)]
        /\ interrupt' = IF interrupt = "unset" /\ ~t.success THEN "set" ELSE interrupt
        /\ sigint' = sig

\* lines 111-143: the call ends with the exception e (or "none"): the except
\* clauses, the finally block with its unlink, the return or the raise; sig
\* tells whether the KeyboardInterrupt of the run has been raised by now
Finally(i, t, e, sig) ==
    \/ \E oserror \in (IF NeedUnlink(t) /\ UnlinkMayFail(fs[Filename(i)]) THEN BOOLEAN ELSE {FALSE}) :
        /\ fs' = IF NeedUnlink(t) /\ ~oserror THEN [fs EXCEPT ![Filename(i)] = Absent] ELSE fs
        /\ asset_task' = [asset_task EXCEPT ![i] =
                Returned(t, e, IF oserror THEN "OSError" ELSE "none", interrupt)]
        /\ interrupt' = interrupt
        /\ sigint' = sig
    \/ \* lines 129-131: KeyboardInterrupt in logger.warning, ahead of the
       \* unlink (the call runs in the main thread)
       /\ interrupt = "none" /\ ~sig /\ NeedUnlink(t)
       /\ fs' = fs
       /\ asset_task' = [asset_task EXCEPT ![i] = Returned(t, e, "KeyboardInterrupt", interrupt)]
       /\ interrupt' = interrupt
       /\ sigint' = TRUE

\* lines 93-98: urlopen, the Content-Length header, the open of the file
DlConnect(i) ==
    /\ i \in 1..Len(asset_task)
    /\ asset_task[i].st = "running"
    /\ LET t == asset_task[i] IN
       \/ \* urlopen raises URLError / ConnectionError / OSError
          Finally(i, t, "caught", sigint)
       \/ \* int(None): the header is absent
          Finally(i, [t EXCEPT !.hdr = "absent"], "TypeError", sigint)
       \/ \* int("x"): the header does not parse
          Finally(i, [t EXCEPT !.hdr = "unparsable"], "caught", sigint)
       \/ \* KeyboardInterrupt in urlopen (the call runs in the main thread)
          /\ interrupt = "none" /\ ~sigint
          /\ Finally(i, t, "KeyboardInterrupt", TRUE)
       \/ \* line 97 to line 98: KeyboardInterrupt once open has returned and
          \* file_opened is not yet True (the call runs in the main thread)
          /\ interrupt = "none" /\ ~sigint
          /\ fs[Filename(i)].kind # "dir"
          /\ fs' = OpenWrite(fs, Filename(i), i)
          /\ asset_task' = [asset_task EXCEPT ![i] =
                Returned([t EXCEPT !.hdr = "int", !.handle = fs'[Filename(i)].ino],
                         "KeyboardInterrupt", "none", interrupt)]
          /\ interrupt' = interrupt
          /\ sigint' = TRUE
       \/ \E n \in 0..MaxLen, oserror \in BOOLEAN :
          IF oserror \/ fs[Filename(i)].kind = "dir"
          THEN Finally(i, [t EXCEPT !.hdr = "int", !.content_length = n], "caught", sigint)
          ELSE /\ fs' = OpenWrite(fs, Filename(i), i)
               /\ interrupt' = interrupt
               /\ sigint' = sigint
               /\ asset_task' = [asset_task EXCEPT
                     ![i].st = "loop", ![i].hdr = "int", ![i].content_length = n,
                     ![i].file_opened = TRUE, ![i].handle = fs'[Filename(i)].ino]
    /\ UNCHANGED <<cfg, fs0, mkdir_called, pc, idx, success, download_list,
                   executor, release_task, exc, result>>

\* lines 100-110: one turn of the chunk loop
DlChunk(i) ==
    /\ i \in 1..Len(asset_task)
    /\ asset_task[i].st = "loop"
    /\ LET t == asset_task[i] IN
       IF interrupt = "set"
       THEN Finally(i, t, "KeyboardInterrupt", sigint)
       ELSE \/ \E n \in 1..Min(_CHUNK_SIZE, MaxLen - t.downloaded_size), oserror \in BOOLEAN :
               IF oserror
               THEN Finally(i, t, "caught", sigint)
               ELSE /\ fs' = WriteAt(fs, Filename(i), t.handle, t.downloaded_size + n)
                    /\ interrupt' = interrupt
                    /\ sigint' = sigint
                    /\ asset_task' = [asset_task EXCEPT ![i].downloaded_size = @ + n]
            \/ \* read returns b"": the loop ends
               Finally(i, [t EXCEPT !.success = SizeCheck(t)], "none", sigint)
            \/ \* read raises ConnectionError / OSError
               Finally(i, t, "caught", sigint)
            \/ \* KeyboardInterrupt in read (the call runs in the main thread)
               /\ interrupt = "none" /\ ~sigint
               /\ Finally(i, t, "KeyboardInterrupt", TRUE)
    /\ UNCHANGED <<cfg, fs0, mkdir_called, pc, idx, success, download_list,
                   executor, release_task, exc, result>>

\* lines 468-472: the sequential download loop calls _download_asset
SeqCall ==
    /\ pc = "seq_download"
    /\ Len(asset_task) < idx
    /\ asset_task' = Append(asset_task, NewTask("running"))
    /\ UNCHANGED <<cfg, fs0, fs, mkdir_called, pc, idx, success, download_list, interrupt,
                   executor, release_task, exc, sigint, result>>

\* lines 468-474: the call returns or raises
SeqReturn ==
    /\ pc = "seq_download"
    /\ Len(asset_task) = idx
    /\ asset_task[idx].st = "done"
    /\ LET ret == asset_task[idx].ret IN
       IF ret \notin {"True", "False"}
       THEN Return(ret) /\ UNCHANGED <<success, idx>>
       ELSE /\ success' = ((ret = "True") /\ success)
            /\ IF idx < Len(download_list)
               THEN idx' = idx + 1 /\ UNCHANGED <<pc, result>>
               ELSE Return(Bool(success')) /\ idx' = idx
    /\ asset_task' = [asset_task EXCEPT ![idx].collected = TRUE]
    /\ UNCHANGED <<cfg, fs0, fs, mkdir_called, download_list, interrupt,
                   executor, release_task, exc, sigint>>

\* -------------------------------------------------- ghdl: pooled fetch phase
Submitted == {r \in 1..Len(release_task) : release_task[r].st # "none"}

\* lines 389-403: one iteration of the submit loop
SubmitRepo ==
    /\ pc = "submit"
    /\ LET e == Repos[idx]
           last == idx = Len(Repos)
       IN
       /\ IF ~_check_repo_config(e)
          THEN /\ success' = FALSE
               /\ UNCHANGED <<fs, release_task>>
          ELSE \E c \in ClearResults(fs, Patterns(e)) :
               /\ fs' = c.fs
               /\ success' = (c.ok /\ success)
               /\ release_task' = [release_task EXCEPT ![idx] =
                        [NoFetch EXCEPT !.st = "pending", !.clear = Mark(c.ran, c.ok)]]
       /\ idx' = IF last THEN idx ELSE idx + 1
       /\ pc' = IF ~last THEN "submit"
                ELSE IF \E r \in 1..Len(Repos) : release_task'[r].st # "none" THEN "collect"
                ELSE "fetch_finally"
    /\ UNCHANGED <<cfg, fs0, mkdir_called, download_list, interrupt, executor,
                   asset_task, exc, sigint, result>>

\* a worker of the fetch pool takes the future from the queue
FetchStart(r) ==
    /\ r \in 1..Len(release_task)
    /\ release_task[r].st = "pending"
    /\ release_task' = [release_task EXCEPT ![r].st = "running"]
    /\ UNCHANGED <<cfg, fs0, fs, mkdir_called, pc, idx, success, download_list, interrupt,
                   executor, asset_task, exc, sigint, result>>

\* lines 39-78 in a worker: the request ends one way or another
FetchFinish(r) ==
    /\ r \in 1..Len(release_task)
    /\ release_task[r].st = "running"
    /\ \E o \in Fetchable :
        release_task' = [release_task EXCEPT ![r].st = "done",
                                             ![r].release = _get_latest_release(o, interrupt)]
    /\ UNCHANGED <<cfg, fs0, fs, mkdir_called, pc, idx, success, download_list, interrupt,
                   executor, asset_task, exc, sigint, result>>

\* a collection loop that stops after the first future
AllCollected_First(r) == TRUE

\* line 405: as_completed has no future left to yield after future r
AllCollected(r) == \A q \in Submitted \ {r} : release_task[q].collected

\* lines 405-421: as_completed yields future r and its release is matched
CollectFetch(r) ==
    /\ pc = "collect"
    /\ r \in 1..Len(release_task)
    /\ release_task[r].st = "done"
    /\ ~release_task[r].collected
    /\ LET o == release_task[r].release
           last == AllCollected(r)
       IN
       IF o.kind = "None"
       THEN /\ success' = FALSE
            /\ release_task' = [release_task EXCEPT ![r].collected = TRUE]
            /\ pc' = IF last THEN "fetch_finally" ELSE "collect"
            /\ UNCHANGED <<download_list, exc>>
       ELSE IF o.kind = "noassets"
       THEN /\ exc' = "KeyError"
            /\ pc' = "fetch_finally"
            /\ release_task' = [release_task EXCEPT ![r].collected = TRUE]
            /\ UNCHANGED <<success, download_list>>
       ELSE \E errs \in SUBSET ProbeTargets(o.assets, Patterns(Repos[r])) :
            LET p == _parse_release(o.assets, r, Patterns(Repos[r]), Checked.overwrite,
                                    fs, download_list, errs)
            IN
            /\ download_list' = p.list
            /\ success' = (p.ok /\ success)
            /\ release_task' = [release_task EXCEPT ![r].collected = TRUE,
                                                    ![r].match = Mark(TRUE, p.ok)]
            /\ pc' = IF last THEN "fetch_finally" ELSE "collect"
            /\ exc' = exc
    /\ UNCHANGED <<cfg, fs0, fs, mkdir_called, idx, interrupt, executor, asset_task,
                   sigint, result>>

\* KeyboardInterrupt inside the try block of lines 388-421
FetchInterrupt ==
    /\ pc \in {"submit", "collect"}
    /\ ~sigint
    /\ sigint' = TRUE
    /\ exc' = "KeyboardInterrupt"
    /\ pc' = "fetch_finally"
    /\ UNCHANGED <<cfg, fs0, fs, mkdir_called, idx, success, download_list, interrupt,
                   executor, release_task, asset_task, result>>

\* shutdown(cancel_futures=False): the queue is left as it is
FetchShutdownCancel_Keeps ==
    /\ pc = "fetch_finally"
    /\ pc' = "fetch_join"
    /\ UNCHANGED <<cfg, fs0, fs, mkdir_called, idx, success, download_list, interrupt,
                   executor, release_task, asset_task, exc, sigint, result>>

\* line 423, cancel_futures=True: the queued futures are cancelled
FetchShutdownCancel ==
    /\ pc = "fetch_finally"
    /\ release_task' = [r \in 1..Len(release_task) |->
            IF release_task[r].st = "pending"
            THEN [release_task[r] EXCEPT !.st = "cancelled"] ELSE release_task[r]]
    /\ pc' = "fetch_join"
    /\ UNCHANGED <<cfg, fs0, fs, mkdir_called, idx, success, download_list, interrupt,
                   executor, asset_task, exc, sigint, result>>

\* shutdown(wait=False)
Joined_NoWait(states) == TRUE

\* shutdown(wait=True) returns when no worker runs a task
Joined(states) == "running" \notin states

\* line 423, wait=True, then the exception leaves ghdl or line 425 makes the
\* download pool
FetchShutdownJoin ==
    /\ pc = "fetch_join"
    /\ Joined({release_task[r].st : r \in 1..Len(release_task)})
    /\ IF exc # "none"
       THEN /\ executor' = [executor EXCEPT !.fetch = "shutdown"]
            /\ Return(exc)
            /\ idx' = idx
       ELSE /\ executor' = [fetch |-> "shutdown", download |-> "open"]
            /\ pc' = IF Len(download_list) > 0 THEN "dl_submit" ELSE "dl_finally"
            /\ idx' = 1
            /\ result' = result
    /\ UNCHANGED <<cfg, fs0, fs, mkdir_called, success, download_list, interrupt,
                   release_task, asset_task, exc, sigint>>

\* ----------------------------------------------- ghdl: pooled download phase
\* lines 427-432: one executor.submit of the list comprehension
SubmitDownload ==
    /\ pc = "dl_submit"
    /\ asset_task' = Append(asset_task, NewTask("pending"))
    /\ pc' = IF Len(asset_task') = Len(download_list) THEN "dl_collect" ELSE "dl_submit"
    /\ UNCHANGED <<cfg, fs0, fs, mkdir_called, idx, success, download_list, interrupt,
                   executor, release_task, exc, sigint, result>>

InWorker(t) == t.st \in {"running", "loop"}
Busy == Cardinality({i \in 1..Len(asset_task) : InWorker(asset_task[i])})

\* a worker of the download pool takes the oldest queued future
DlStart(i) ==
    /\ i \in 1..Len(asset_task)
    /\ asset_task[i].st = "pending"
    /\ \A j \in 1..(i - 1) : asset_task[j].st # "pending"
    /\ Busy < Checked.concurrent_num
    /\ asset_task' = [asset_task EXCEPT ![i].st = "running"]
    /\ UNCHANGED <<cfg, fs0, fs, mkdir_called, pc, idx, success, download_list, interrupt,
                   executor, release_task, exc, sigint, result>>

\* lines 434-435: as_completed yields future i
CollectDownload(i) ==
    /\ pc = "dl_collect"
    /\ i \in 1..Len(asset_task)
    /\ asset_task[i].st = "done"
    /\ ~asset_task[i].collected
    /\ success' = ((asset_task[i].ret = "True") /\ success)
    /\ asset_task' = [asset_task EXCEPT ![i].collected = TRUE]
    /\ pc' = IF \A j \in 1..Len(asset_task) : asset_task'[j].collected
             THEN "dl_finally" ELSE "dl_collect"
    /\ UNCHANGED <<cfg, fs0, fs, mkdir_called, idx, download_list, interrupt,
                   executor, release_task, exc, sigint, result>>

\* KeyboardInterrupt inside the try block of lines 426-435
DlInterrupt ==
    /\ pc \in {"dl_submit", "dl_collect"}
    /\ ~sigint
    /\ sigint' = TRUE
    /\ pc' = "dl_except"
    /\ UNCHANGED <<cfg, fs0, fs, mkdir_called, idx, success, download_list, interrupt,
                   executor, release_task, asset_task, exc, result>>

\* lines 436-438: interrupt.set(), raise
ExceptKeyboardInterrupt ==
    /\ pc = "dl_except"
    /\ interrupt' = "set"
    /\ exc' = "KeyboardInterrupt"
    /\ pc' = "dl_finally"
    /\ UNCHANGED <<cfg, fs0, fs, mkdir_called, idx, success, download_list,
                   executor, release_task, asset_task, sigint, result>>

\* line 440, cancel_futures=True
DlShutdownCancel ==
    /\ pc = "dl_finally"
    /\ asset_task' = [i \in 1..Len(asset_task) |->
            IF asset_task[i].st = "pending"
            THEN [asset_task[i] EXCEPT !.st = "cancelled"] ELSE asset_task[i]]
    /\ pc' = "dl_join"
    /\ UNCHANGED <<cfg, fs0, fs, mkdir_called, idx, success, download_list, interrupt,
                   executor, release_task, exc, sigint, result>>

\* line 440, wait=True, then line 474 or the exception leaves ghdl
DlShutdownJoin ==
    /\ pc = "dl_join"
    /\ Joined({IF InWorker(asset_task[i]) THEN "running" ELSE asset_task[i].st : i \in 1..Len(asset_task)})
    /\ executor' = [executor EXCEPT !.download = "shutdown"]
    /\ Return(IF exc # "none" THEN exc ELSE Bool(success))
    /\ UNCHANGED <<cfg, fs0, fs, mkdir_called, idx, success, download_list, interrupt,
                   release_task, asset_task, exc, sigint>>

\* ------------------------------------------------------------------ __main__
\* lines 533-537: the exit status for what ghdl returned or raised; an
\* exception other than KeyboardInterrupt is not caught and ends the
\* interpreter with status 1
ExitStatus(v) ==
    CASE v = "True" -> 0
      [] v = "False" -> 1
      [] v = "KeyboardInterrupt" -> 1
      [] OTHER -> 1

Next ==
    \/ Validate
    \/ Mkdir
    \/ SeqRepo
    \/ SeqCall
    \/ SeqReturn
    \/ SubmitRepo
    \/ \E r \in 1..Len(release_task) : FetchStart(r)
    \/ \E r \in 1..Len(release_task) : FetchFinish(r)
    \/ \E r \in 1..Len(release_task) : CollectFetch(r)
    \/ FetchInterrupt
    \/ FetchShutdownCancel
    \/ FetchShutdownJoin
    \/ SubmitDownload
    \/ \E i \in 1..Len(asset_task) : DlStart(i)
    \/ \E i \in 1..Len(asset_task) : DlConnect(i)
    \/ \E i \in 1..Len(asset_task) : DlChunk(i)
    \/ \E i \in 1..Len(asset_task) : CollectDownload(i)
    \/ DlInterrupt
    \/ ExceptKeyboardInterrupt
    \/ DlShutdownCancel
    \/ DlShutdownJoin

Spec == Init /\ [][Next]_vars

\* ================================================================= claims
Ended == pc = "done"
Tasks == 1..Len(asset_task)
Done(i) == asset_task[i].st = "done"
Pooled == interrupt # "none"

\* the file download i opened is the file under its target name in dir
HoldsFileIn(dir, tasks, i) ==
    IsFile(dir[Filename(i)]) /\ dir[Filename(i)].ino = tasks[i].handle
HoldsFile(i) == HoldsFileIn(fs, asset_task, i)

\* the file under download i's target name has the length the download accepted
FileComplete(dir, tasks, i) ==
    IsFile(dir[Filename(i)]) /\ dir[Filename(i)].size = tasks[i].content_length

\* no other queued task has download i's target name
UniqueName(i) == \A j \in 1..Len(download_list) : j # i => Filename(j) # Filename(i)

\* the chunk loop ended at end of body and the length check failed
Mismatch(i) ==
    /\ Done(i) /\ asset_task[i].file_opened
    /\ asset_task[i].exc = "none" /\ ~asset_task[i].success

\* C1: a download that ended without success after open returned has left no
\* file of its own under the target name; the one allowance is the spec's
\* "best-effort": an unlink that raised OSError.
C1_Claim ==
    \A i \in Tasks :
        (Done(i) /\ asset_task[i].ret # "True" /\ asset_task[i].handle # -1)
            => (~HoldsFile(i) \/ asset_task[i].unlink_failed)

\* the part of C1 that the code keeps: cleanup in a pooled run, where no
\* KeyboardInterrupt reaches a worker
C1_PooledCleanup ==
    \A i \in Tasks :
        (Pooled /\ Done(i) /\ asset_task[i].ret # "True" /\ asset_task[i].handle # -1)
            => (~HoldsFile(i) \/ asset_task[i].unlink_failed)

BadHeader(i) == asset_task[i].hdr \in {"absent", "unparsable"}
C3_Claim ==
    /\ \A i \in Tasks : (Done(i) /\ BadHeader(i)) => asset_task[i].ret = "False"
    /\ (Ended /\ ~sigint /\ \E i \in Tasks : BadHeader(i)) =>
            /\ result = "False"
            /\ Len(asset_task) = Len(download_list)
            /\ \A i \in Tasks : Done(i)

\* C4: without an interrupt ghdl returns True iff the config is valid, the
\* directory was made and every validation, clear, fetch, match and download
\* succeeded, and no unit's failure keeps another unit from being attempted.
\* (Stated for runs in which every fetched body has the release's shape.)
ValidRepo(r) == _check_repo_config(Repos[r])
AllUnitsOk ==
    /\ \A r \in 1..Len(Repos) :
        /\ ValidRepo(r)
        /\ release_task[r].clear # "fail"
        /\ release_task[r].release.kind = "ok"
        /\ release_task[r].match = "ok"
    /\ Len(asset_task) = Len(download_list)
    /\ \A i \in Tasks : asset_task[i].ret = "True"
AllAttempted ==
    /\ \A r \in 1..Len(Repos) : ValidRepo(r) =>
        /\ release_task[r].st = "done"
        /\ release_task[r].release.kind = "ok" => release_task[r].match # "none"
    /\ Len(asset_task) = Len(download_list)
    /\ \A i \in Tasks : Done(i)
C4_Aggregate ==
    (Ended /\ ~sigint /\ Checked.ok /\ Len(Repos) > 0 /\ idx > 0 /\ result # "KeyError") =>
        /\ result = "True" <=> AllUnitsOk
        /\ AllAttempted
C4_Claim ==
    /\ (Ended /\ ~Checked.ok) => result = "False"
    /\ (Ended /\ mkdir_called /\ idx = 0) => result = "False"
    /\ C4_Aggregate

\* the part of C4 that the code keeps: the returned value is the AND
C4_IffOnly ==
    (Ended /\ ~sigint /\ Checked.ok /\ Len(Repos) > 0 /\ idx > 0) =>
        (result = "True" <=> AllUnitsOk)

\* a pooled run that met no OSError in clearing or matching, no interrupt,
\* and a release for every repo
QuietPooledRun ==
    /\ Ended /\ Pooled /\ ~sigint /\ result \in {"True", "False"}
    /\ \A r \in 1..Len(Repos) : ValidRepo(r) =>
        /\ release_task[r].release.kind = "ok"
        /\ release_task[r].clear # "fail"
        /\ release_task[r].match = "ok"

\* C5: with the same config, directory and responses and no interrupt, the
\* pooled run ends with the set of queued download tasks that the sequential
\* loop queues.
C5_Claim ==
    QuietPooledRun => Range(download_list) = Range(SeqLoop(1, fs0, <<>>))

\* the part of C5 that the code keeps: without clear_matches the two modes
\* queue the same tasks
C5_NoClearMatches ==
    (QuietPooledRun /\ ~Checked.clear_matches)
        => Range(download_list) = Range(SeqLoop(1, fs0, <<>>))

\* C6: once a KeyboardInterrupt has reached the orchestrator in the download
\* phase, the event gets set, from then on no download that has not started
\* starts, a download in its chunk loop ends at its next step, the files of
\* completed downloads stay, and the run raises with no partial file left.
InterruptedDownloadPhase == sigint /\ executor.download # "none"
C6_Step ==
    InterruptedDownloadPhase =>
        /\ pc # "dl_except" => interrupt = "set"
        /\ \A i \in Tasks : (interrupt = "set" /\ asset_task[i].st = "pending")
                => asset_task'[i].st \in {"pending", "cancelled"}
        /\ \A i \in Tasks :
                (interrupt = "set" /\ asset_task[i].st = "loop" /\ asset_task'[i] # asset_task[i])
                    => asset_task'[i].st = "done"
        /\ \A i \in Tasks :
                (Done(i) /\ asset_task[i].ret = "True" /\ UniqueName(i)
                    /\ FileComplete(fs, asset_task, i))
                    => FileComplete(fs', asset_task', i)
        /\ pc' = "done" =>
                /\ result' = "KeyboardInterrupt"
                /\ \A i \in Tasks :
                    (asset_task'[i].ret # "True" /\ asset_task'[i].handle # -1)
                        => (~HoldsFileIn(fs', asset_task', i) \/ asset_task'[i].unlink_failed)
C6_Claim == [][C6_Step]_vars

\* the part of C6 that the code keeps: all of it but "never starts"
C6_StepButStart ==
    InterruptedDownloadPhase =>
        /\ pc # "dl_except" => interrupt = "set"
        /\ \A i \in Tasks :
                (interrupt = "set" /\ asset_task[i].st = "loop" /\ asset_task'[i] # asset_task[i])
                    => asset_task'[i].st = "done"
        /\ \A i \in Tasks :
                (Done(i) /\ asset_task[i].ret = "True" /\ UniqueName(i)
                    /\ FileComplete(fs, asset_task, i))
                    => FileComplete(fs', asset_task', i)
        /\ pc' = "done" =>
                /\ result' = "KeyboardInterrupt"
                /\ \A i \in Tasks :
                    (asset_task'[i].ret # "True" /\ asset_task'[i].handle # -1)
                        => (~HoldsFileIn(fs', asset_task', i) \/ asset_task'[i].unlink_failed)
C6_ButStart == [][C6_StepButStart]_vars

\* C7: the Event is created unset, is set at most once and never cleared, and
\* every change of it is a step of the main thread (one that moves pc): its
\* creation at line 381 and interrupt.set() at line 437.
C7_Step ==
    interrupt' # interrupt =>
        /\ pc' # pc
        /\ \/ interrupt = "none" /\ interrupt' = "unset" /\ pc = "mkdir"
           \/ interrupt = "unset" /\ interrupt' = "set" /\ pc = "dl_except"
C7_SetOnce == [][C7_Step]_vars

\* the Event is set and a worker has seen it in its chunk loop
C7_Witness ==
    /\ interrupt = "set"
    /\ \E i \in Tasks : Done(i) /\ asset_task[i].exc = "KeyboardInterrupt"

\* C8: in pooled mode a download task exists only after every fetch task has
\* finished, the fetch pool is shut down and every fetched release is
\* matched; the download list changes only in the main thread's collection
\* loop, when no download task exists.
C8_Step ==
    Pooled' =>
        /\ Len(asset_task') > 0 =>
            /\ executor'.fetch = "shutdown"
            /\ \A r \in 1..Len(release_task') :
                /\ release_task'[r].st \in {"none", "done"}
                /\ release_task'[r].st = "done" =>
                    /\ release_task'[r].collected
                    /\ release_task'[r].release.kind = "ok" => release_task'[r].match # "none"
        /\ download_list' # download_list =>
            /\ pc = "collect"
            /\ Len(asset_task) = 0 /\ Len(asset_task') = 0
            /\ executor.download = "none"
C8_PhasesInSequence == [][C8_Step]_vars

\* a download worker is in its chunk loop after two fetches were collected
C8_Witness ==
    /\ Pooled
    /\ \E i \in Tasks : asset_task[i].st = "loop"
    /\ Cardinality({r \in 1..Len(release_task) : release_task[r].collected}) = 2

C10_Invalid(c) ==
    \/ c.shape # "dict"
    \/ c.repos_type # "list"
    \/ c.overwrite = "other" \/ c.clear_matches = "other"
    \/ c.dir = "other" \/ c.token = "other"
    \/ c.concurrency.type \notin {"absent", "int"}
    \/ c.concurrency.type = "int" /\ c.concurrency.val < 0
C10_InvalidConfig ==
    C10_Invalid(cfg) =>
        /\ pc \in {"check", "done"}
        /\ result \in {"running", "False"}
        /\ Ended => result = "False"
        /\ ~mkdir_called
        /\ fs = fs0
        /\ \A r \in 1..Len(release_task) : release_task[r] = NoFetch
        /\ asset_task = <<>>
        /\ executor = [fetch |-> "none", download |-> "none"]

\* a config whose only fault is a negative concurrency, over a repos list that
\* would be run and a directory with a file in it, has returned False
C10_Witness ==
    /\ Ended /\ result = "False"
    /\ cfg.concurrency = IntVal(-1)
    /\ ~C10_Invalid([cfg EXCEPT !.concurrency = IntVal(0)])
    /\ Len(Repos) > 0
    /\ fs = fs0 /\ fs0["a"] = OldFile

\* ------------------------------------------------------------------- C11
\* the step in which repo r's release is matched
MatchStep(r) == release_task[r].match = "none" /\ release_task'[r].match # "none"

\* the claim's table for asset k of the release `assets` of repo r, over the
\* directory dir
C11_Matches(r, name) ==
    Len(Repos[r].filters) = 0 \/ \E k \in 1..Len(Repos[r].filters) : name \in Repos[r].filters[k].matches
C11_Queued(r, assets, dir, k) ==
    /\ C11_Matches(r, assets[k])
    /\ \/ dir[assets[k]].kind = "absent"
       \/ dir[assets[k]].kind = "file" /\ Checked.overwrite
C11_Failure(r, assets, dir, k) ==
    /\ C11_Matches(r, assets[k])
    /\ dir[assets[k]].kind = "dir" /\ Checked.overwrite

\* the sequence new holds the tasks of the assets in Q, in the release's order
C11_Exactly(new, r, assets, Q) ==
    /\ Len(new) = Cardinality(Q)
    /\ Range(new) = {[url |-> <<r, k>>, filename |-> assets[k]] : k \in Q}
    /\ \A i \in 1..Len(new), j \in 1..Len(new) : i < j => new[i].url[2] < new[j].url[2]

\* what the match appended
Appended == SubSeq(download_list', Len(download_list) + 1, Len(download_list'))

\* C11 as stated: a match appends the tasks of exactly the assets the table
\* queues, in order, and succeeds iff the table has no failure.
C11_TableStep ==
    \A r \in 1..Len(Repos) : MatchStep(r) =>
        LET assets == release_task'[r].release.assets
            Q == {k \in 1..Len(assets) : C11_Queued(r, assets, fs', k)}
            F == {k \in 1..Len(assets) : C11_Failure(r, assets, fs', k)}
        IN /\ SubSeq(download_list', 1, Len(download_list)) = download_list
           /\ C11_Exactly(Appended, r, assets, Q)
           /\ release_task'[r].match = "ok" <=> F = {}
C11_Original == [][C11_TableStep]_vars

\* C11, amended: there is a set E of matched assets (those whose exists /
\* is_file probe raised OSError) such that the match appends the tasks of
\* exactly the assets outside E that the table queues, in order, and succeeds
\* iff E is empty and the table has no failure.
C11_TableOrProbeErrorStep ==
    \A r \in 1..Len(Repos) : MatchStep(r) =>
        LET assets == release_task'[r].release.assets
            Q == {k \in 1..Len(assets) : C11_Queued(r, assets, fs', k)}
            F == {k \in 1..Len(assets) : C11_Failure(r, assets, fs', k)}
        IN /\ SubSeq(download_list', 1, Len(download_list)) = download_list
           /\ \E E \in SUBSET {k \in 1..Len(assets) : C11_Matches(r, assets[k])} :
                /\ C11_Exactly(Appended, r, assets, Q \ E)
                /\ release_task'[r].match = "ok" <=> (F = {} /\ E = {})
           /\ release_task'[r].match = "ok" => C11_Exactly(Appended, r, assets, Q)
C11_TableOrProbeError == [][C11_TableOrProbeErrorStep]_vars

\* a match failed on "a", a directory that overwrite would replace, and
\* queued "b" of the same release
C11_Witness ==
    /\ Checked.ok /\ Checked.overwrite /\ fs0["a"] = Directory
    /\ \E r \in 1..Len(release_task) :
        /\ release_task[r].match = "fail"
        /\ release_task[r].release.assets = <<"a", "b">>
        /\ [url |-> <<r, 2>>, filename |-> "b"] \in Range(download_list)
        /\ [url |-> <<r, 1>>, filename |-> "a"] \notin Range(download_list)

\* ------------------------------------------------------------------- C12
\* download i of the run that has ended is queued again by a second run of
\* the same config over the directory the first run left and the same releases
Requeued(i) ==
    LET r == download_list[i].url[1]
    IN download_list[i] \in QueuedFrom(fs, r, release_task[r].release.assets)

SparedByClear(f) ==
    Checked.clear_matches =>
        \A r \in 1..Len(Repos) : _check_repo_config(Repos[r]) =>
            \A k \in 1..Len(Repos[r].filters) : f \notin Repos[r].filters[k].matches

FetchFailed(r) == release_task[r].release.kind \in {"None", "KeyError", "noassets"}

\* C13: when some repo's fetch failed and no interrupt came, the run does not
\* end with that repo's error and does not return True, and every valid repo
\* has been fetched and, where it has a release, matched.
C13_Claim ==
    (Ended /\ ~sigint /\ \E r \in 1..Len(Repos) : FetchFailed(r)) =>
        /\ result \notin {"KeyError", "True"}
        /\ \A r \in 1..Len(Repos) : ValidRepo(r) =>
            /\ release_task[r].st = "done"
            /\ release_task[r].collected
            /\ release_task[r].release.kind = "ok" => release_task[r].match # "none"

\* the part of C13 that the code keeps: the failures that _get_latest_release
\* turns into None
C13_CaughtFailures ==
    (Ended /\ ~sigint
        /\ (\E r \in 1..Len(Repos) : FetchFailed(r))
        /\ \A r \in 1..Len(Repos) : release_task[r].release.kind \notin {"KeyError", "noassets"}) =>
        /\ result \notin {"KeyError", "True"}
        /\ \A r \in 1..Len(Repos) : ValidRepo(r) =>
            /\ release_task[r].st = "done"
            /\ release_task[r].collected
            /\ release_task[r].release.kind = "ok" => release_task[r].match # "none"

\* ------------------------------------------------------------------- C14
\* the claim's list of faults of a repo entry
C14_Invalid(e) ==
    \/ e.shape # "dict"
    \/ e.owner # "str" \/ e.repo # "str"
    \/ e.token = "other"
    \/ e.filters_type = "other"
    \/ \E k \in 1..Len(e.filters) : e.filters[k].kind \in {"invalid", "nonstr"}

\* C14: for a repo entry that fails validation nothing is cleared, fetched,
\* matched or downloaded, the run does not return True, and a run that
\* returns has processed every valid entry, in both paths.
C14_InvalidEntryDropped ==
    Checked.ok =>
        /\ \A r \in 1..Len(Repos) : C14_Invalid(Repos[r]) =>
            /\ release_task[r] = NoFetch
            /\ \A i \in 1..Len(download_list) : download_list[i].url[1] # r
            /\ Ended => result # "True"
        /\ (Ended /\ idx > 0 /\ result \in {"True", "False"}) =>
            \A r \in 1..Len(Repos) : ~C14_Invalid(Repos[r]) =>
                /\ release_task[r].st = "done"
                /\ release_task[r].release.kind = "ok" => release_task[r].match # "none"

\* a pooled run with an invalid entry ahead of a valid one has returned False
\* after it downloaded the valid entry's asset
C14_Witness ==
    /\ Ended /\ Pooled /\ result = "False"
    /\ Len(Repos) = 2 /\ C14_Invalid(Repos[1]) /\ ~C14_Invalid(Repos[2])
    /\ release_task[1] = NoFetch
    /\ release_task[2].match = "ok"
    /\ \E i \in Tasks : download_list[i].url[1] = 2 /\ asset_task[i].ret = "True"

C16_Claim ==
    /\ (Ended /\ result = "KeyboardInterrupt") =>
            ExitStatus(result) \notin {ExitStatus("True"), ExitStatus("False")}
    /\ (Ended /\ result = "False") => ExitStatus(result) # ExitStatus("True")

\* the part of C16 that the code keeps: status 0 iff ghdl returned True
C16_SuccessIsZero ==
    Ended => (ExitStatus(result) = 0 <=> result = "True")

\* ------------------------------------------------------------------- C17
\* the step in which _clear_matches is called for repo r
ClearStep(r) == release_task[r].clear = "none" /\ release_task'[r].clear # "none"

\* the name fully matches some filter of repo r
C17_Matches(r, n) == \E k \in 1..Len(Repos[r].filters) : n \in Repos[r].filters[k].matches

\* C17: a clear-matches call either fails to list the directory, changes
\* nothing and returns False, or, for some set E of matched regular files
\* whose unlink raised, deletes exactly the matched regular files outside E,
\* leaves every other child as it was, and returns True iff E is empty and
\* no matched child is a non-regular file; either way the repo's fetch is
\* issued next.
C17_SweepStep ==
    \A r \in 1..Len(Repos) : ClearStep(r) =>
        LET hit == {n \in Names : fs[n].kind # "absent" /\ C17_Matches(r, n)}
            files == {n \in hit : fs[n].kind = "file"}
        IN /\ \/ fs' = fs /\ release_task'[r].clear = "fail"
              \/ \E E \in SUBSET files :
                    /\ \A n \in Names :
                        fs'[n] = IF n \in files \ E THEN Absent ELSE fs[n]
                    /\ release_task'[r].clear = "ok" <=> (E = {} /\ hit = files)
           /\ release_task'[r].st # "none"
C17_Sweep == [][C17_SweepStep]_vars

\* a sweep over two matched files deleted "a" although the unlink of "b"
\* raised, and the repo's fetch was issued
C17_Witness ==
    /\ Len(asset_task) = 0 /\ Len(Repos) = 1
    /\ C17_Matches(1, "a") /\ C17_Matches(1, "b")
    /\ fs0["a"] = OldFile /\ fs0["b"] = OldFile
    /\ fs["a"] = Absent /\ fs["b"] = OldFile
    /\ release_task[1].clear = "fail"
    /\ release_task[1].st # "none"

\* ------------------------------------------------------------------- C18
\* a KeyboardInterrupt was raised in the main thread of a pooled run before
\* the download pool was made
InterruptedFetchPhase == sigint /\ Pooled /\ executor.download = "none"

\* what C18 says of all fetches but the queued ones: the Event stays unset, a
\* fetch in a worker runs on to its end, a cancelled fetch stays cancelled, no
\* release is matched any more, no download pool, download or change of the
\* directory follows, and ghdl raises KeyboardInterrupt with no fetch queued
\* or running
C18_Frame ==
    /\ interrupt = "unset" /\ interrupt' = "unset"
    /\ executor'.download = "none"
    /\ asset_task' = <<>>
    /\ fs' = fs
    /\ download_list' = download_list
    /\ \A r \in 1..Len(release_task) :
        /\ release_task[r].st = "running" => release_task'[r].st \in {"running", "done"}
        /\ release_task[r].st = "cancelled" => release_task'[r].st = "cancelled"
        /\ release_task'[r].collected = release_task[r].collected
    /\ pc' = "done" =>
        /\ result' = "KeyboardInterrupt"
        /\ executor'.fetch = "shutdown"
        /\ \A r \in 1..Len(release_task) : release_task'[r].st \in {"none", "done", "cancelled"}

\* C18 as stated: after the interrupt, in addition, no fetch that has not
\* started starts.
C18_OriginalStep ==
    InterruptedFetchPhase =>
        /\ C18_Frame
        /\ \A r \in 1..Len(release_task) :
            release_task[r].st = "pending" => release_task'[r].st \in {"pending", "cancelled"}
C18_Original == [][C18_OriginalStep]_vars

\* C18, amended: after the interrupt, in addition, the fetches still queued
\* when the pool is shut down are cancelled (a queued fetch may still start
\* before that, and then runs to its end).
C18_AmendedStep ==
    InterruptedFetchPhase =>
        /\ C18_Frame
        /\ \A r \in 1..Len(release_task) :
            /\ release_task[r].st = "pending"
                    => release_task'[r].st \in {"pending", "running", "cancelled"}
            /\ (pc = "fetch_finally" /\ pc' # pc /\ release_task[r].st = "pending")
                    => release_task'[r].st = "cancelled"
            /\ pc' \in {"fetch_join", "done"} => release_task'[r].st # "pending"
C18_CancelledAtShutdown == [][C18_AmendedStep]_vars

\* an interrupted fetch phase has ended with one fetch cancelled in the queue
\* and another one finished in its worker and never collected
C18_Witness ==
    /\ Ended /\ InterruptedFetchPhase /\ result = "KeyboardInterrupt"
    /\ fs = fs0 /\ asset_task = <<>>
    /\ \E r \in 1..Len(release_task) : release_task[r].st = "cancelled"
    /\ \E r \in 1..Len(release_task) :
        release_task[r].st = "done" /\ ~release_task[r].collected

\* ------------------------------------------------------------------- C19
\* repo r has no filter
C19_NoFilter(r) == Len(Repos[r].filters) = 0

\* the match of a repo without filters lets every asset through: each asset
\* of the release is queued, or is already in the directory, or the match
\* failed on a probe
C19_AllMatchStep ==
    \A r \in 1..Len(Repos) : (MatchStep(r) /\ C19_NoFilter(r)) =>
        LET assets == release_task'[r].release.assets
        IN \A k \in 1..Len(assets) :
            \/ [url |-> <<r, k>>, filename |-> assets[k]] \in Range(Appended)
            \/ fs'[assets[k]].kind # "absent"
            \/ release_task'[r].match = "fail"

\* C19 as stated: with clear_matches, the sweep of a repo without filters
\* deletes nothing and succeeds, while every asset of the repo's release
\* matches.
C19_OriginalStep ==
    /\ \A r \in 1..Len(Repos) : (ClearStep(r) /\ C19_NoFilter(r)) =>
        fs' = fs /\ release_task'[r].clear = "ok"
    /\ C19_AllMatchStep
C19_Original == [][C19_OriginalStep]_vars

\* C19, amended: with clear_matches, the sweep of a repo without filters
\* deletes nothing, and succeeds unless listing the directory raised OSError,
\* while every asset of the repo's release matches.
C19_AmendedStep ==
    /\ \A r \in 1..Len(Repos) : (ClearStep(r) /\ C19_NoFilter(r)) =>
        /\ fs' = fs
        /\ \A listErr \in BOOLEAN, errs \in SUBSET Names :
            _clear_matches(fs, <<>>, listErr, errs) = [fs |-> fs, ok |-> ~listErr]
    /\ C19_AllMatchStep
C19_NoFilterDeletesNothing == [][C19_AmendedStep]_vars

\* with clear_matches, a repo without filters swept a directory holding "a"
\* with success and left "a" there, and its release's asset "b" was queued
C19_Witness ==
    /\ Checked.ok /\ Checked.clear_matches /\ fs0["a"] = OldFile
    /\ \E r \in 1..Len(release_task) :
        /\ C19_NoFilter(r)
        /\ release_task[r].clear = "ok"
        /\ release_task[r].match = "ok"
        /\ release_task[r].release.assets = <<"a", "b">>
        /\ fs["a"] = OldFile
        /\ [url |-> <<r, 2>>, filename |-> "b"] \in Range(download_list)

\* ------------------------------------------------------------------- C20
\* C20: under a valid config with an empty repos list, whatever its
\* overwrite, clear_matches, dir and concurrency, ghdl is at its config check
\* or has returned True, and it has called no mkdir, made no Event and no
\* pool, issued no fetch, queued or started no download and left the
\* directory as it was.
C20_EmptyReposReturnTrue ==
    (Checked.ok /\ Len(Repos) = 0) =>
        /\ pc \in {"check", "done"}
        /\ result = IF pc = "done" THEN "True" ELSE "running"
        /\ ~mkdir_called
        /\ interrupt = "none"
        /\ executor = [fetch |-> "none", download |-> "none"]
        /\ release_task = <<>>
        /\ download_list = <<>>
        /\ asset_task = <<>>
        /\ fs = fs0

\* a run with an empty repos list, clear_matches and overwrite on, a dir
\* given and the default concurrency has returned True over a directory that
\* holds a file
C20_Witness ==
    /\ Ended /\ Checked.ok /\ Len(Repos) = 0 /\ result = "True"
    /\ cfg.clear_matches = "true" /\ cfg.overwrite = "true" /\ cfg.dir = "str"
    /\ Checked.concurrent_num = _DEFAULT_CONCURRENCY
    /\ fs["a"] = OldFile /\ ~mkdir_called

====
